---- MODULE Spec2Model ----
(***************************************************************************)
(* A model of scripts/run-test262.py: the test262 conformance runner.      *)
(*                                                                         *)
(* Strings are sequences of chunks.  A chunk stands for a run of           *)
(* characters; the chunks used here start with different characters and    *)
(* none is a prefix of another, so comparing two chunk sequences chunk by  *)
(* chunk (by the code point of the first character) orders them exactly as *)
(* Python orders the strings, and a suffix test on chunks is the suffix    *)
(* test on characters.                                                     *)
(*                                                                         *)
(* Six specifications share the module:                                    *)
(*   SpecExpand  compute_scenarios and the work tuple main builds from it  *)
(*   SpecRunner  one call of run_single_test                               *)
(*   Spec        main: a sequence of invocations over one file system      *)
(*   SpecOneRun  main: one invocation over one of three corpora            *)
(*   SpecPool    main, its pool workers and the engine children, with a    *)
(*               termination signal that can arrive at any moment          *)
(*   SpecPoolLive  SpecPool under fair scheduling                          *)
(***************************************************************************)
EXTENDS Integers, Sequences, FiniteSets, TLC

VARIABLES
    \* ---- SpecExpand: compute_scenarios(test_file, metadata) and main's work tuple
    cs_pc,          \* "off" | "input" | "scenarios" | "work"
    test_file,      \* the path handed to compute_scenarios
    cs_flags,       \* metadata.get("flags", [])
    cs_scenarios,   \* the list compute_scenarios returned
    cs_work,        \* the work tuples main builds (scenario_id, test_file_str, mode)
    \* ---- SpecRunner: one call of run_single_test
    r_pc,           \* "off" | "called" | "spawn" | "running" | "exited" |
                    \* "returned" | "raised"
    r_engine,       \* engine_name
    r_mode,         \* mode
    r_front,        \* what the front matter of the test file declares
    r_timeout,      \* timeout, in ticks
    r_clock,        \* ticks elapsed since the child was spawned
    r_tmp_path,     \* tmp_path: "None" or the name of the temporary file
    r_tmp_exists,   \* whether the temporary file is on disk
    r_combined,     \* the text written to the temporary file
    r_cmd,          \* cmd
    r_child,        \* the engine process: "none" | "alive" | "exited" | "killed"
    r_exit_code,    \* result.returncode
    r_stdout,       \* the markers that occur in result.stdout
    r_stderr,       \* the markers that occur in result.stderr
    r_ret,          \* the returned tuple, without the scenario id
    \* ---- Spec: invocations of main over one file system
    pc,             \* "idle" | "pool" | "joined" | "exited"
    fs,             \* the files main reads and writes, by name
    invocations,    \* how many times the runner has been started
    engine_name,    \* args.engine
    paths,          \* args.paths
    tests,          \* the list find_tests returned
    work,           \* the work list
    binary_ok,      \* whether the engine binary can be executed
    pending,        \* indexes of work whose future has not been folded yet
    passed, failed, skipped, done,
    pass_list, fail_list,
    regressions, new_passes,
    exit_status,    \* the exit status of the process, -1 while it runs
    json_obj,       \* the summary printed on the "JSON: " line
    corpus,         \* the test files under test262/test (never changes)
    corpus_ok,      \* whether test262/test is a directory
    outcome,        \* history: what each folded scenario was counted as
    fs_at_start,    \* history: the file system when the invocation began
    \* ---- SpecPool: main, its pool workers and the engine processes
    p_pc,           \* main: "off" | "setup" | "pool" | "raising" | "joined" |
                    \* "baseline_open" | "baseline_done" | "fail_open" |
                    \* "fail_done" | "exited"
    p_full,         \* is_full_run
    p_item,         \* per scenario: "queued" | "tmp" | "running" | "result" |
                    \* "folded" | "lost"
    p_by,           \* per scenario: the worker running it, 0 for none
    p_res,          \* per scenario: "none" | "ret" | "raised"
    p_tmp,          \* the scenarios whose temporary file is on disk
    p_child,        \* per scenario: "none" | "alive" | "exited" | "killed"
    p_worker,       \* per worker: "up" | "signalled" | "dead" | "gone"
    p_sig,          \* the signal main's handler ran for: "none" | "SIGTERM" | "SIGINT"
    p_exit,         \* exit status of main, -1 while it runs
    p_baseline,     \* the baseline file: "old" | "truncated" | "new"
    p_failfile,     \* the failure file: "old" | "truncated" | "new"
    p_writes        \* history: how often each file was opened for writing

expandVars == <<cs_pc, test_file, cs_flags, cs_scenarios, cs_work>>

runnerVars == <<r_pc, r_engine, r_mode, r_front, r_timeout, r_clock, r_tmp_path,
                r_tmp_exists, r_combined, r_cmd, r_child, r_exit_code, r_stdout,
                r_stderr, r_ret>>

mainVars == <<pc, fs, invocations, engine_name, paths, tests, work, binary_ok,
              pending, passed, failed, skipped, done, pass_list, fail_list,
              regressions, new_passes, exit_status, json_obj, corpus, corpus_ok,
              outcome, fs_at_start>>

poolVars == <<p_pc, p_full, p_item, p_by, p_res, p_tmp, p_child, p_worker,
              p_sig, p_exit, p_baseline, p_failfile, p_writes>>

vars == <<expandVars, runnerVars, mainVars, poolVars>>

------------------------------------------------------------------------------
\* Bounds of the model.

\* Longest test file path, in chunks.
MaxPathLen == 3

\* Largest --timeout, in ticks of the model's clock.
MaxTimeout == 2

\* Largest exit status of the engine (jsse exits with 2 on a parse error).
MaxExitCode == 2

\* How many times the runner is started, one invocation after the other.
MaxInvocations == 2

\* args.jobs: the number of pool workers.
MaxWorkers == 1

\* The number of scenarios a run of the pool submits: more than there are
\* workers.
MaxScenarios == 2

------------------------------------------------------------------------------
\* Strings.

LF == "<LF>"
JS == ".js"
STRICT == ":strict"

\* The code point of a chunk's first character.
Ord(c) ==
    CASE c = LF -> 10
      [] c = JS -> 46
      [] c = STRICT -> 58
      [] c = "a" -> 97
      [] c = "b" -> 98
      [] c = "c" -> 99

\* Python's s < t on strings.
RECURSIVE StrLess(_, _)
StrLess(s, t) ==
    IF t = << >> THEN FALSE
    ELSE IF s = << >> THEN TRUE
    ELSE IF Head(s) = Head(t) THEN StrLess(Tail(s), Tail(t))
    ELSE Ord(Head(s)) < Ord(Head(t))

\* s.endswith(suffix)
EndsWith(s, suffix) ==
    /\ Len(s) >= Len(suffix)
    /\ SubSeq(s, Len(s) - Len(suffix) + 1, Len(s)) = suffix

\* A removesuffix that strips the suffix wherever it occurs, last or not.
RemoveSuffixEverywhere(s, suffix) ==
    SelectSeq(s, LAMBDA c : <<c>> # suffix)

\* s.removesuffix(suffix)
RemoveSuffix(s, suffix) ==
    IF suffix # << >> /\ EndsWith(s, suffix)
    THEN SubSeq(s, 1, Len(s) - Len(suffix))
    ELSE s

Range(s) == {s[i] : i \in 1..Len(s)}

------------------------------------------------------------------------------
\* Scenario computation.

ExpansionFlags == {"module", "raw", "onlyStrict", "noStrict"}
Flags == ExpansionFlags \cup {"async"}

\* compute_scenarios with onlyStrict tested before raw.
ComputeScenariosStrictFirst(file, flags) ==
    IF "module" \in flags THEN << <<file, "module">> >>
    ELSE IF "onlyStrict" \in flags THEN << <<file, "strict">> >>
    ELSE IF "raw" \in flags THEN << <<file, "default">> >>
    ELSE IF "noStrict" \in flags THEN << <<file, "default">> >>
    ELSE << <<file, "default">>, <<file \o <<STRICT>>, "strict">> >>

\* compute_scenarios(test_file, metadata): the list of (scenario_id, mode).
ComputeScenarios(file, flags) ==
    IF "module" \in flags THEN << <<file, "module">> >>
    ELSE IF "raw" \in flags THEN << <<file, "default">> >>
    ELSE IF "onlyStrict" \in flags THEN << <<file, "strict">> >>
    ELSE IF "noStrict" \in flags THEN << <<file, "default">> >>
    ELSE << <<file, "default">>, <<file \o <<STRICT>>, "strict">> >>

\* One tuple of main's work list; the timeout, corpus root, engine and binary
\* are the same for every scenario of a run and are kept in the run's state.
WorkItem(scenario) ==
    [scenario_id |-> scenario[1],
     test_file_str |-> RemoveSuffix(scenario[1], <<STRICT>>),
     mode |-> scenario[2]]

\* The paths find_tests can return: a file argument must have the suffix .js
\* and a directory is searched for *.js, so every path ends in ".js".
PathChunks == {"a", STRICT, JS}

RECURSIVE SeqsUpTo(_, _)
SeqsUpTo(S, n) ==
    IF n = 0 THEN {<< >>}
    ELSE LET shorter == SeqsUpTo(S, n - 1)
         IN  shorter \cup {Append(s, c) : s \in shorter, c \in S}

TestPaths == {Append(s, JS) : s \in SeqsUpTo(PathChunks, MaxPathLen - 1)}

------------------------------------------------------------------------------
\* Engine adapters.

Engines == {"jsse", "node", "boa"}

\* JsseAdapter / NodeAdapter / BoaAdapter .build_command
BuildCommand(engine, file, tmp_path, harness_files, is_module) ==
    IF engine = "jsse" /\ is_module
    THEN <<"binary">>
         \o [i \in 1..(2 * Len(harness_files)) |->
               IF i % 2 = 1 THEN "--prelude" ELSE harness_files[i \div 2]]
         \o <<"--module", file>>
    ELSE IF engine = "boa" /\ is_module
    THEN <<"binary", "--module", tmp_path>>
    ELSE <<"binary", tmp_path>>

\* needs_harness_in_source(is_module)
NeedsHarnessInSource(engine, is_module) ==
    IF engine = "jsse" THEN ~is_module ELSE TRUE

\* is_parse_error(exit_code, stderr)
IsParseError(engine, exit_code, stderr) ==
    IF engine = "jsse" THEN exit_code = 2 ELSE "SyntaxError" \in stderr

\* skip_module()
SkipModule(engine) == engine = "node"

------------------------------------------------------------------------------
\* Front matter.
\*
\* A test file's front matter is described by what it declares: the flags, the
\* includes, and the shape of its negative field:
\*   "absent"  no line starts with "negative:"
\*   "block"   negative: / phase: <phase> / type: <type>, in this order
\*   "bare"    a line starts with "negative:" but the block has another shape

Phases == {"parse", "runtime", "resolution"}

NegativeShapes ==
    {[shape |-> "absent", phase |-> ""], [shape |-> "bare", phase |-> ""]}
    \cup {[shape |-> "block", phase |-> p] : p \in Phases}

IncludeLists == {<< >>, <<"propertyHelper.js", "compareArray.js">>}

FrontMatters ==
    [flags : SUBSET Flags, includes : IncludeLists, negative : NegativeShapes]

\* metadata.get("negative"): None is the record with present = FALSE.
NoNegative == [present |-> FALSE, phase |-> "", type |-> ""]

\* parse_frontmatter with a bare negative field read as phase parse.
ParseFrontmatterBareAsParse(front) ==
    [flags |-> front.flags,
     includes |-> front.includes,
     negative |->
        IF front.negative.shape = "block"
        THEN [present |-> TRUE, phase |-> front.negative.phase, type |-> "Error"]
        ELSE IF front.negative.shape = "bare"
        THEN [present |-> TRUE, phase |-> "parse", type |-> ""]
        ELSE NoNegative]

\* parse_frontmatter(text)
ParseFrontmatter(front) ==
    [flags |-> front.flags,
     includes |-> front.includes,
     negative |->
        IF front.negative.shape = "block"
        THEN [present |-> TRUE, phase |-> front.negative.phase, type |-> "Error"]
        ELSE IF front.negative.shape = "bare"
        THEN [present |-> TRUE, phase |-> "runtime", type |-> ""]
        ELSE NoNegative]

------------------------------------------------------------------------------
\* Harness and source building.

\* get_harness_files(metadata, test262_dir, is_module, is_async)
GetHarnessFiles(metadata, is_module, is_async) ==
    IF "raw" \notin metadata.flags
    THEN <<"assert.js", "sta.js">>
         \o (IF is_async THEN <<"doneprintHandle.js">> ELSE << >>)
         \o metadata.includes
    ELSE << >>

\* A build_test_source that puts the pragma after the harness.
BuildTestSourcePragmaAfterHarness(metadata, mode) ==
    IF mode = "module" THEN <<"<source>">>
    ELSE (IF "raw" \notin metadata.flags
          THEN <<"assert.js", "sta.js">>
               \o (IF "async" \in metadata.flags
                   THEN <<"doneprintHandle.js">> ELSE << >>)
               \o metadata.includes
          ELSE << >>)
         \o (IF mode = "strict" THEN <<"use strict">> ELSE << >>)
         \o <<"<source>">>

\* A build_test_source that prepends the harness whatever the flags are.
BuildTestSourceAlwaysHarness(metadata, mode) ==
    IF mode = "module" THEN <<"<source>">>
    ELSE (IF mode = "strict" THEN <<"use strict">> ELSE << >>)
         \o <<"assert.js", "sta.js">>
         \o (IF "async" \in metadata.flags
             THEN <<"doneprintHandle.js">> ELSE << >>)
         \o metadata.includes
         \o <<"<source>">>

\* The parts build_test_source joins with "\n"; "<source>" is the text of the
\* test file and a file name stands for the text of that harness file.
BuildTestSource(metadata, mode) ==
    IF mode = "module" THEN <<"<source>">>
    ELSE (IF mode = "strict" THEN <<"use strict">> ELSE << >>)
         \o (IF "raw" \notin metadata.flags
             THEN <<"assert.js", "sta.js">>
                  \o (IF "async" \in metadata.flags
                      THEN <<"doneprintHandle.js">> ELSE << >>)
                  \o metadata.includes
             ELSE << >>)
         \o <<"<source>">>

\* Whether build_test_source reads a harness file (and so can fail on one).
ReadsHarness(metadata, mode) ==
    mode # "module" /\ "raw" \notin metadata.flags

------------------------------------------------------------------------------
\* Classification of a child that ran to completion.

COMPLETE == "Test262:AsyncTestComplete"
FAILURE == "Test262:AsyncTestFailure"

\* Classification that looks at the async markers before the negative field.
ClassifyAsyncFirst(engine, metadata, exit_code, stdout, stderr) ==
    IF "async" \in metadata.flags THEN
        IF COMPLETE \in stdout THEN exit_code = 0
        ELSE IF FAILURE \in stdout THEN FALSE
        ELSE exit_code = 0
    ELSE IF metadata.negative.present THEN
        IF metadata.negative.phase = "parse"
        THEN IsParseError(engine, exit_code, stderr)
        ELSE exit_code # 0
    ELSE exit_code = 0

\* Classification that never looks at the negative field.
ClassifyIgnoringNegative(engine, metadata, exit_code, stdout, stderr) ==
    IF "async" \in metadata.flags THEN
        IF COMPLETE \in stdout THEN exit_code = 0
        ELSE IF FAILURE \in stdout THEN FALSE
        ELSE exit_code = 0
    ELSE exit_code = 0

\* Classification that takes the success marker alone as a pass.
ClassifyMarkerOnly(engine, metadata, exit_code, stdout, stderr) ==
    IF metadata.negative.present THEN
        IF metadata.negative.phase = "parse"
        THEN IsParseError(engine, exit_code, stderr)
        ELSE exit_code # 0
    ELSE IF "async" \in metadata.flags THEN
        IF COMPLETE \in stdout THEN TRUE
        ELSE IF FAILURE \in stdout THEN FALSE
        ELSE exit_code = 0
    ELSE exit_code = 0

\* run_single_test, lines 387-402: passed
Classify(engine, metadata, exit_code, stdout, stderr) ==
    IF metadata.negative.present THEN
        IF metadata.negative.phase = "parse"
        THEN IsParseError(engine, exit_code, stderr)
        ELSE exit_code # 0
    ELSE IF "async" \in metadata.flags THEN
        IF COMPLETE \in stdout THEN exit_code = 0
        ELSE IF FAILURE \in stdout THEN FALSE
        ELSE exit_code = 0
    ELSE exit_code = 0

\* The tuple run_single_test returns, without the scenario id.
Ret(test_passed, reason) == [passed |-> test_passed, skip_reason |-> reason]

NoRet == Ret(FALSE, "<no return>")

\* line 370
TimeoutRet == Ret(FALSE, "timeout")

\* A subprocess.run that leaves the child running when the timeout expires.
ChildLeftRunning == "alive"

\* subprocess.run(cmd, timeout=...), lines 357-364: when the timeout expires
\* the child is killed and waited for before TimeoutExpired is raised.
ChildAfterTimeout == "killed"

\* The exit statuses of a child: 0..MaxExitCode, or -9 when a signal killed it.
ExitCodes == {-9} \cup (0..MaxExitCode)

------------------------------------------------------------------------------
\* Text files: newline-delimited ids.

\* "\n".join(list)
RECURSIVE JoinLines(_)
JoinLines(list) ==
    IF list = << >> THEN << >>
    ELSE IF Len(list) = 1 THEN list[1]
    ELSE list[1] \o <<LF>> \o JoinLines(Tail(list))

\* text.strip(): the only whitespace in these texts is the line feed.
RECURSIVE Strip(_)
Strip(text) ==
    IF text = << >> THEN text
    ELSE IF Head(text) = LF THEN Strip(Tail(text))
    ELSE IF text[Len(text)] = LF THEN Strip(SubSeq(text, 1, Len(text) - 1))
    ELSE text

\* text.split("\n"): the empty text splits into one empty string.
RECURSIVE Split(_)
Split(text) ==
    IF \A i \in 1..Len(text) : text[i] # LF THEN <<text>>
    ELSE LET k == CHOOSE i \in 1..Len(text) :
                    text[i] = LF /\ \A j \in 1..(i - 1) : text[j] # LF
         IN  <<SubSeq(text, 1, k - 1)>> \o Split(SubSeq(text, k + 1, Len(text)))

\* sorted(S) for a set of strings
RECURSIVE Sorted(_)
Sorted(S) ==
    IF S = {} THEN << >>
    ELSE LET m == CHOOSE x \in S : \A y \in S \ {x} : StrLess(x, y)
         IN  <<m>> \o Sorted(S \ {m})

\* list.sort() / sorted(list)
SortList(list) == SortSeq(list, StrLess)

NoFile == [exists |-> FALSE, text |-> << >>]
File(text) == [exists |-> TRUE, text |-> text]

\* The baseline written on every invocation, filtered or not.
WriteBaselineAlways(files, name, is_full_run, list) ==
    [files EXCEPT ![name] = File(JoinLines(SortList(list)) \o <<LF>>)]

\* lines 629-631: the baseline is written on a full run only
WriteBaseline(files, name, is_full_run, list) ==
    IF is_full_run
    THEN [files EXCEPT ![name] = File(JoinLines(SortList(list)) \o <<LF>>)]
    ELSE files

\* A failure file written in the order the results came in.
WriteFailFileUnsorted(files, name, list) ==
    [files EXCEPT ![name] = File(JoinLines(list) \o <<LF>>)]

\* lines 633-634
WriteFailFile(files, name, list) ==
    [files EXCEPT ![name] = File(JoinLines(SortList(list)) \o <<LF>>)]

\* line 603: set(baseline_file.read_text().strip().split("\n"))
ReadBaseline(file) == Range(Split(Strip(file.text)))

\* Baseline paths where node uses the default engine's file and the default
\* engine uses node's.
BaselineFileSwapped(engine) ==
    IF engine = "jsse" THEN "test262-pass-node.txt"
    ELSE IF engine = "node" THEN "test262-pass.txt"
    ELSE "test262-pass-boa.txt"

\* lines 590-595
BaselineFile(engine) ==
    IF engine = "jsse" THEN "test262-pass.txt"
    ELSE IF engine = "node" THEN "test262-pass-node.txt"
    ELSE "test262-pass-boa.txt"

FailFile(engine) ==
    IF engine = "jsse" THEN "/tmp/test262-fail.txt"
    ELSE IF engine = "node" THEN "/tmp/test262-fail-node.txt"
    ELSE "/tmp/test262-fail-boa.txt"

FileNames == {BaselineFile(e) : e \in Engines} \cup {FailFile(e) : e \in Engines}

\* Regressions taken over the whole baseline, executed this run or not.
RegressionsOverBaseline(baseline, ran_tests, current) ==
    Sorted(baseline \ current)

\* line 605
Regressions(baseline, ran_tests, current) ==
    Sorted((baseline \cap ran_tests) \ current)

\* New passes that do not look at the baseline.
NewPassesIgnoringBaseline(baseline, current) == Sorted(current)

\* line 606
NewPasses(baseline, current) == Sorted(current \ baseline)

------------------------------------------------------------------------------
\* The corpus and its discovery.

FileA == <<"a", JS>>
FileB == <<"b", JS>>
FileC == <<"c", JS>>

\* The test files under test262/test and what their front matter declares:
\* a.js restricts nothing (two scenarios), b.js is a module.
Corpus ==
    <<[path |-> FileA,
       front |-> [flags |-> {}, includes |-> << >>,
                  negative |-> [shape |-> "absent", phase |-> ""]]],
      [path |-> FileB,
       front |-> [flags |-> {"module"}, includes |-> << >>,
                  negative |-> [shape |-> "absent", phase |-> ""]]]>>

\* A second corpus: a.js restricts nothing, b.js is onlyStrict, c.js is a
\* negative test of the parse phase.
CorpusThreeFiles ==
    <<[path |-> FileA,
       front |-> [flags |-> {}, includes |-> << >>,
                  negative |-> [shape |-> "absent", phase |-> ""]]],
      [path |-> FileB,
       front |-> [flags |-> {"onlyStrict"}, includes |-> << >>,
                  negative |-> [shape |-> "absent", phase |-> ""]]],
      [path |-> FileC,
       front |-> [flags |-> {}, includes |-> << >>,
                  negative |-> [shape |-> "block", phase |-> "parse"]]]>>

\* A third corpus: as the second, with c.js also declared noStrict.
CorpusThreeFilesOneMode ==
    <<[path |-> FileA,
       front |-> [flags |-> {}, includes |-> << >>,
                  negative |-> [shape |-> "absent", phase |-> ""]]],
      [path |-> FileB,
       front |-> [flags |-> {"onlyStrict"}, includes |-> << >>,
                  negative |-> [shape |-> "absent", phase |-> ""]]],
      [path |-> FileC,
       front |-> [flags |-> {"noStrict"}, includes |-> << >>,
                  negative |-> [shape |-> "block", phase |-> "parse"]]]>>

CorpusPaths == [i \in 1..Len(corpus) |-> corpus[i].path]

FrontOf(path) ==
    corpus[CHOOSE i \in 1..Len(corpus) : corpus[i].path = path].front

\* What a path argument names: the file a.js, the file b.js, the directory
\* that holds both, or nothing that exists.
ArgFiles(arg) ==
    CASE arg = "a.js" -> <<FileA>>
      [] arg = "b.js" -> <<FileB>>
      [] arg = "test" -> SortList(CorpusPaths)
      [] OTHER -> << >>

\* The path arguments tried: none, one file, a file named twice, a directory,
\* a path that does not exist.
PathLists ==
    {<< >>, <<"a.js">>, <<"b.js">>, <<"b.js", "b.js">>, <<"test">>, <<"missing">>}

\* The sets of test files main cannot read when it expands the corpus.
UnreadableSets == {{}, {FileA}}

RECURSIVE Concat(_)
Concat(lists) ==
    IF lists = << >> THEN << >> ELSE Head(lists) \o Concat(Tail(lists))

\* find_tests(test262_dir, paths)
FindTests(args_paths) ==
    IF args_paths # << >>
    THEN SortList(Concat([i \in 1..Len(args_paths) |-> ArgFiles(args_paths[i])]))
    ELSE SortList(CorpusPaths)

\* lines 525-533 and 552-563: the scenarios of the test files, as work tuples
ExpandTests(files, unreadable) ==
    LET scenarios ==
            Concat([i \in 1..Len(files) |->
                IF files[i] \in unreadable
                THEN << <<files[i], "default">> >>
                ELSE ComputeScenarios(files[i],
                         ParseFrontmatter(FrontOf(files[i])).flags)])
    IN  [i \in 1..Len(scenarios) |-> WorkItem(scenarios[i])]

\* skip_reason.startswith("skip_"): "skip_module" is the only such reason.
IsSkip(skip_reason) == skip_reason = "skip_module"

\* The tuples run_single_test can return for a work item (lines 322-404): what
\* SpecRunner's return paths give.  Without an executable binary every spawn
\* fails.
RunSingleTestReturns(engine, item, can_exec) ==
    {Ret(FALSE, "read_error")}
    \cup (IF item.mode = "module" /\ SkipModule(engine)
          THEN {Ret(FALSE, "skip_module")}
          ELSE {Ret(FALSE, "harness_error"), Ret(FALSE, "exec_error")}
               \cup (IF can_exec
                     THEN {Ret(FALSE, "timeout"), Ret(TRUE, ""), Ret(FALSE, "")}
                     ELSE {}))

\* Whether run_single_test can raise instead of returning: the temporary file
\* cannot be created, or the pre-exec function fails.
RunSingleTestCanRaise(engine, item) ==
    ~(item.mode = "module" /\ SkipModule(engine))

\* SpecPool's variables when another specification runs.
PoolOff ==
    /\ p_pc = "off"
    /\ p_full = FALSE
    /\ p_item = << >>
    /\ p_by = << >>
    /\ p_res = << >>
    /\ p_tmp = {}
    /\ p_child = << >>
    /\ p_worker = << >>
    /\ p_sig = "none"
    /\ p_exit = -1
    /\ p_baseline = "old"
    /\ p_failfile = "old"
    /\ p_writes = << >>

RunnerOff ==
    /\ r_pc = "off"
    /\ r_engine = "jsse"
    /\ r_mode = "default"
    /\ r_front = [flags |-> {}, includes |-> << >>,
                  negative |-> [shape |-> "absent", phase |-> ""]]
    /\ r_timeout = 0
    /\ r_clock = 0
    /\ r_tmp_path = "None"
    /\ r_tmp_exists = FALSE
    /\ r_combined = << >>
    /\ r_cmd = << >>
    /\ r_child = "none"
    /\ r_exit_code = 0
    /\ r_stdout = {}
    /\ r_stderr = {}
    /\ r_ret = NoRet

\* round(passed / run_total * 100, 2), in hundredths of a percent.
\* lines 586-587 and 646: round(passed / run_total * 100, 2), in hundredths
\* of a percent.
Percentage(n_passed, run_total) ==
    IF run_total = 0 THEN 0
    ELSE (2 * 10000 * n_passed + run_total) \div (2 * run_total)

\* A summary that reports every scenario as run, the skipped ones included.
SummaryRunIsTotal(engine, num_files, total, n_passed, n_failed, n_skipped, n_reg, n_new) ==
    [engine |-> engine,
     files |-> num_files,
     scenarios |-> total,
     run |-> total,
     skip |-> n_skipped,
     pass |-> n_passed,
     fail |-> n_failed,
     percentage |-> Percentage(n_passed, total),
     regressions |-> n_reg,
     new_passes |-> n_new]

\* lines 637-648: json_obj
Summary(engine, num_files, total, n_passed, n_failed, n_skipped, n_reg, n_new) ==
    [engine |-> engine,
     files |-> num_files,
     scenarios |-> total,
     run |-> n_passed + n_failed,
     skip |-> n_skipped,
     pass |-> n_passed,
     fail |-> n_failed,
     percentage |-> Percentage(n_passed, n_passed + n_failed),
     regressions |-> n_reg,
     new_passes |-> n_new]

\* Nothing has been printed.
NoSummary == [engine |-> "<none>"]

\* update-readme.py, lines 33-38: the fields main reads from the object parsed
\* off the "JSON: " line; a subscript with a key the object lacks raises
\* KeyError.
UpdaterFields == {"total", "run", "skip", "pass", "fail", "percentage"}

\* update-readme.py, lines 24-44: the table row built from the summary, or the
\* KeyError that ends the updater.
UpdateReadme(data) ==
    IF UpdaterFields \subseteq DOMAIN data
    THEN [raised |-> "none",
          row |-> <<data["total"], data["run"], data["skip"], data["pass"],
                    data["fail"], data["percentage"]>>]
    ELSE [raised |-> "KeyError",
          missing |-> UpdaterFields \ DOMAIN data]

\* lines 507-522: the status main exits with before any scenario runs, or -1
\* when it goes on to run the scenarios.
\* A main that reports a missing corpus as "no tests" and the reverse.
SetupStatusSwapped(engine, binary_is_file, corpus_is_dir, found) ==
    IF engine = "jsse" /\ ~binary_is_file THEN 2
    ELSE IF ~corpus_is_dir THEN 1
    ELSE IF found = << >> THEN 2
    ELSE -1

SetupStatus(engine, binary_is_file, corpus_is_dir, found) ==
    IF engine = "jsse" /\ ~binary_is_file THEN 2
    ELSE IF ~corpus_is_dir THEN 2
    ELSE IF found = << >> THEN 1
    ELSE -1

\* The process-local state of main before an invocation starts.
MainLocalsOff ==
    /\ engine_name = "jsse"
    /\ paths = << >>
    /\ tests = << >>
    /\ work = << >>
    /\ binary_ok = FALSE
    /\ pending = {}
    /\ passed = 0
    /\ failed = 0
    /\ skipped = 0
    /\ done = 0
    /\ pass_list = << >>
    /\ fail_list = << >>
    /\ regressions = << >>
    /\ new_passes = << >>
    /\ exit_status = -1
    /\ json_obj = NoSummary
    /\ corpus_ok = FALSE
    /\ outcome = {}
    /\ fs_at_start = [n \in FileNames |-> NoFile]

MainOff ==
    /\ pc = "off"
    /\ corpus = Corpus
    /\ fs = [n \in FileNames |-> NoFile]
    /\ invocations = 0
    /\ MainLocalsOff

ExpandOff ==
    /\ cs_pc = "off"
    /\ test_file = << >>
    /\ cs_flags = {}
    /\ cs_scenarios = << >>
    /\ cs_work = << >>

InitExpand ==
    /\ cs_pc = "input"
    /\ test_file \in TestPaths
    /\ cs_flags \in SUBSET Flags
    /\ cs_scenarios = << >>
    /\ cs_work = << >>
    /\ RunnerOff
    /\ MainOff
    /\ PoolOff

\* main, lines 532-533: scenarios.extend(compute_scenarios(str(t), metadata))
Expand ==
    /\ cs_pc = "input"
    /\ cs_scenarios' = ComputeScenarios(test_file, cs_flags)
    /\ cs_pc' = "scenarios"
    /\ UNCHANGED <<test_file, cs_flags, cs_work, runnerVars, mainVars, poolVars>>

\* main, lines 552-563: the work list
BuildWork ==
    /\ cs_pc = "scenarios"
    /\ cs_work' = [i \in 1..Len(cs_scenarios) |-> WorkItem(cs_scenarios[i])]
    /\ cs_pc' = "work"
    /\ UNCHANGED <<test_file, cs_flags, cs_scenarios, runnerVars, mainVars, poolVars>>

NextExpand ==
    \/ Expand
    \/ BuildWork

SpecExpand == InitExpand /\ [][NextExpand]_vars

------------------------------------------------------------------------------
\* C3: a descriptor with none of onlyStrict, noStrict, raw, module expands to
\* exactly two scenarios with distinct ids, the first with mode default and the
\* file path as id, the second with mode strict and the suffixed path as id,
\* and the test file main recovers from each id is the original file.
C3_DualExpansion ==
    (cs_pc = "work" /\ cs_flags \cap ExpansionFlags = {}) =>
        /\ Len(cs_scenarios) = 2
        /\ cs_scenarios[1][1] # cs_scenarios[2][1]
        /\ cs_scenarios[1] = <<test_file, "default">>
        /\ cs_scenarios[2] = <<test_file \o <<STRICT>>, "strict">>
        /\ \A i \in 1..2 : cs_work[i].test_file_str = test_file
        /\ \A i \in 1..2 : cs_work[i].scenario_id = cs_scenarios[i][1]
        /\ \A i \in 1..2 : cs_work[i].mode = cs_scenarios[i][2]

\* A dual-mode file whose name itself contains ":strict" has been expanded.
C3_Witness ==
    /\ cs_pc = "work"
    /\ cs_flags = {"async"}
    /\ test_file = <<"a", STRICT, JS>>
    /\ Len(cs_work) = 2

\* C4: a flag set with one or more of module, raw, onlyStrict, noStrict gives
\* exactly one scenario, whose id is the file path and whose mode is that of
\* the highest-priority flag present (module > raw > onlyStrict > noStrict).
C4_FirstMatchWins ==
    (cs_pc \in {"scenarios", "work"} /\ cs_flags \cap ExpansionFlags # {}) =>
        /\ Len(cs_scenarios) = 1
        /\ cs_scenarios[1][1] = test_file
        /\ cs_scenarios[1][2] =
             (CASE "module" \in cs_flags -> "module"
                [] "module" \notin cs_flags /\ "raw" \in cs_flags -> "default"
                [] cs_flags \cap {"module", "raw"} = {} /\ "onlyStrict" \in cs_flags
                     -> "strict"
                [] OTHER -> "default")

\* raw and onlyStrict together (raw wins) have been expanded.
C4_Witness ==
    /\ cs_pc = "scenarios"
    /\ {"raw", "onlyStrict", "noStrict"} \subseteq cs_flags
    /\ "module" \notin cs_flags
    /\ cs_scenarios = << <<test_file, "default">> >>

------------------------------------------------------------------------------
\* One call of run_single_test.

r_metadata == ParseFrontmatter(r_front)
r_is_module == r_mode = "module"
r_is_async == "async" \in r_metadata.flags

\* The modes main schedules a file with these flags in.
ModesOf(flags) ==
    {ComputeScenarios(<<"a", JS>>, flags)[i][2] :
        i \in 1..Len(ComputeScenarios(<<"a", JS>>, flags))}

InitRunner ==
    /\ r_pc = "called"
    /\ r_engine \in Engines
    /\ r_front \in FrontMatters
    /\ r_mode \in ModesOf(r_front.flags)
    /\ r_timeout \in 1..MaxTimeout
    /\ r_clock = 0
    /\ r_tmp_path = "None"
    /\ r_tmp_exists = FALSE
    /\ r_combined = << >>
    /\ r_cmd = << >>
    /\ r_child = "none"
    /\ r_exit_code = 0
    /\ r_stdout = {}
    /\ r_stderr = {}
    /\ r_ret = NoRet
    /\ ExpandOff
    /\ MainOff
    /\ PoolOff

Return(ret) ==
    /\ r_pc' = "returned"
    /\ r_ret' = ret

\* lines 316-354: read the head of the file, parse it, skip or compose the
\* source, write it to a temporary file and build the command.
\*   file_ok     the test file can be read
\*   harness_ok  every harness file build_test_source reads can be read
\*   tmp_ok      the temporary file can be created and written
Prepare ==
    /\ r_pc = "called"
    /\ \E file_ok, harness_ok, tmp_ok \in BOOLEAN :
        IF ~file_ok THEN
            /\ Return(Ret(FALSE, "read_error"))
            /\ UNCHANGED <<r_tmp_path, r_tmp_exists, r_combined, r_cmd>>
        ELSE IF r_is_module /\ SkipModule(r_engine) THEN
            /\ Return(Ret(FALSE, "skip_module"))
            /\ UNCHANGED <<r_tmp_path, r_tmp_exists, r_combined, r_cmd>>
        ELSE IF NeedsHarnessInSource(r_engine, r_is_module) \/ ~r_is_module THEN
            IF ReadsHarness(r_metadata, r_mode) /\ ~harness_ok THEN
                /\ Return(Ret(FALSE, "harness_error"))
                /\ UNCHANGED <<r_tmp_path, r_tmp_exists, r_combined, r_cmd>>
            ELSE IF ~tmp_ok THEN
                \* NamedTemporaryFile or tmp.write raises OSError outside any
                \* try block; when the write fails the file is left behind
                /\ r_pc' = "raised"
                /\ r_tmp_exists' \in BOOLEAN
                /\ UNCHANGED <<r_ret, r_tmp_path, r_combined, r_cmd>>
            ELSE
                /\ r_combined' = BuildTestSource(r_metadata, r_mode)
                /\ r_tmp_path' = "tmp.js"
                /\ r_tmp_exists' = TRUE
                /\ r_cmd' = BuildCommand(r_engine, "<test_file>", "tmp.js",
                        GetHarnessFiles(r_metadata, r_is_module, r_is_async),
                        r_is_module)
                /\ r_pc' = "spawn"
                /\ UNCHANGED r_ret
        ELSE
            /\ r_cmd' = BuildCommand(r_engine, "<test_file>", "None",
                    GetHarnessFiles(r_metadata, r_is_module, r_is_async),
                    r_is_module)
            /\ r_pc' = "spawn"
            /\ UNCHANGED <<r_ret, r_tmp_path, r_tmp_exists, r_combined>>
    /\ UNCHANGED <<r_engine, r_mode, r_front, r_timeout, r_clock, r_child,
                   r_exit_code, r_stdout, r_stderr>>

\* A run_single_test that never removes its temporary file.
UnlinkSkipped == UNCHANGED r_tmp_exists

\* os.unlink(tmp_path) under "if tmp_path:"
Unlink == r_tmp_exists' = (IF r_tmp_path # "None" THEN FALSE ELSE r_tmp_exists)

\* line 357, the start of subprocess.run: the child is spawned, or Popen raises
\* OSError (lines 371-377), or the pre-exec function fails and Popen raises
\* SubprocessError, which no except clause catches (the finally clause runs).
Spawn ==
    /\ r_pc = "spawn"
    /\ \E how \in {"spawned", "oserror", "preexec_error"} :
        CASE how = "spawned" ->
                /\ r_child' = "alive"
                /\ r_pc' = "running"
                /\ UNCHANGED <<r_ret, r_tmp_exists>>
          [] how = "oserror" ->
                /\ Unlink
                /\ Return(Ret(FALSE, "exec_error"))
                /\ UNCHANGED r_child
          [] how = "preexec_error" ->
                /\ Unlink
                /\ r_pc' = "raised"
                /\ UNCHANGED <<r_ret, r_child>>
    /\ UNCHANGED <<r_engine, r_mode, r_front, r_timeout, r_clock, r_tmp_path,
                   r_combined, r_cmd, r_exit_code, r_stdout, r_stderr>>

\* Time passes while subprocess.run waits for the child.
Tick ==
    /\ r_pc = "running"
    /\ r_clock < r_timeout
    /\ r_clock' = r_clock + 1
    /\ UNCHANGED <<r_pc, r_engine, r_mode, r_front, r_timeout, r_tmp_path,
                   r_tmp_exists, r_combined, r_cmd, r_child, r_exit_code,
                   r_stdout, r_stderr, r_ret>>

\* The child ends before the timeout: subprocess.run returns (lines 357-363).
ChildExit ==
    /\ r_pc = "running"
    /\ r_clock < r_timeout
    /\ \E code \in ExitCodes, out \in SUBSET {COMPLETE, FAILURE},
          err \in SUBSET {"SyntaxError"} :
        /\ r_exit_code' = code
        /\ r_stdout' = out
        /\ r_stderr' = err
    /\ r_child' = "exited"
    /\ r_pc' = "exited"
    /\ UNCHANGED <<r_engine, r_mode, r_front, r_timeout, r_clock, r_tmp_path,
                   r_tmp_exists, r_combined, r_cmd, r_ret>>

\* The timeout elapses with the child still running: lines 364-370, then the
\* finally clause.
TimeoutExpired ==
    /\ r_pc = "running"
    /\ r_clock = r_timeout
    /\ r_child' = ChildAfterTimeout
    /\ Unlink
    /\ Return(TimeoutRet)
    /\ UNCHANGED <<r_engine, r_mode, r_front, r_timeout, r_clock, r_tmp_path,
                   r_combined, r_cmd, r_exit_code, r_stdout, r_stderr>>

\* lines 378-404: the finally clause, the classification and the return.
ClassifyAndReturn ==
    /\ r_pc = "exited"
    /\ Unlink
    /\ Return(Ret(Classify(r_engine, r_metadata, r_exit_code, r_stdout, r_stderr),
                  ""))
    /\ UNCHANGED <<r_engine, r_mode, r_front, r_timeout, r_clock, r_tmp_path,
                   r_combined, r_cmd, r_child, r_exit_code, r_stdout, r_stderr>>

NextRunner ==
    \/ Prepare /\ UNCHANGED <<expandVars, mainVars, poolVars>>
    \/ Spawn /\ UNCHANGED <<expandVars, mainVars, poolVars>>
    \/ Tick /\ UNCHANGED <<expandVars, mainVars, poolVars>>
    \/ ChildExit /\ UNCHANGED <<expandVars, mainVars, poolVars>>
    \/ TimeoutExpired /\ UNCHANGED <<expandVars, mainVars, poolVars>>
    \/ ClassifyAndReturn /\ UNCHANGED <<expandVars, mainVars, poolVars>>

SpecRunner == InitRunner /\ [][NextRunner]_vars

\* The child ran to completion and run_single_test classified it.
Completed == r_pc = "returned" /\ r_child = "exited"

\* What the front matter of the test file declares.
ParseNegative ==
    r_front.negative.shape = "block" /\ r_front.negative.phase = "parse"
OtherNegative ==
    \/ r_front.negative.shape = "bare"
    \/ r_front.negative.shape = "block" /\ r_front.negative.phase # "parse"
AsyncNotNegative ==
    r_front.negative.shape = "absent" /\ "async" \in r_front.flags

\* C5: a completed parse-phase negative scenario is a fail when the child
\* exited with 0, and a pass when it exited with 2 and the adapter reports
\* is_parse_error(2, stderr), under every adapter.
C5_ParseNegativeExitCodes ==
    (Completed /\ ParseNegative) =>
        /\ r_exit_code = 0 => ~r_ret.passed
        /\ (r_exit_code = 2 /\ IsParseError(r_engine, 2, r_stderr)) => r_ret.passed

\* C6: a completed parse-phase negative scenario passes exactly when the
\* adapter reports a parse error for the exit code and stderr, whatever the
\* async flag and the markers in stdout.
C6_ParseNegativeIffParseError ==
    (Completed /\ ParseNegative) =>
        /\ r_ret.passed = IsParseError(r_engine, r_exit_code, r_stderr)
        /\ r_ret.skip_reason = ""

\* An async parse-phase negative test under node whose stdout holds the failure
\* marker passed on the SyntaxError in stderr.
C6_Witness ==
    /\ Completed /\ ParseNegative
    /\ r_engine = "node"
    /\ "async" \in r_front.flags
    /\ FAILURE \in r_stdout
    /\ "SyntaxError" \in r_stderr
    /\ r_ret.passed

\* C7: a completed negative scenario whose phase is not parse (a declared
\* phase other than parse, or a bare negative field) passes exactly when the
\* exit code is not 0.
C7_OtherNegativeIffNonZero ==
    (Completed /\ OtherNegative) =>
        /\ r_ret.passed = (r_exit_code # 0)
        /\ r_ret.skip_reason = ""

\* A bare negative field under jsse, the child exited with 1: a pass.
C7_Witness ==
    /\ Completed
    /\ r_front.negative.shape = "bare"
    /\ r_engine = "jsse"
    /\ r_exit_code = 1
    /\ r_ret.passed

\* C8: a completed non-negative async scenario whose stdout holds the failure
\* marker is a fail, for every exit code and with or without the success marker.
C8_FailureMarkerForcesFail ==
    (Completed /\ AsyncNotNegative /\ FAILURE \in r_stdout) => ~r_ret.passed

\* C9: a completed non-negative async scenario whose stdout holds no failure
\* marker passes exactly when the exit code is 0, with the success marker in
\* stdout as well as with neither marker.
C9_AsyncFallsBackToExitCode ==
    (Completed /\ AsyncNotNegative /\ FAILURE \notin r_stdout) =>
        /\ r_ret.passed = (r_exit_code = 0)
        /\ r_ret.skip_reason = ""

\* The success marker was printed and the child exited with 1: a fail.
C9_Witness ==
    /\ Completed /\ AsyncNotNegative
    /\ r_stdout = {COMPLETE}
    /\ r_exit_code = 1
    /\ ~r_ret.passed

\* The timeout elapsed with the child still running.
TimedOut == r_clock = r_timeout /\ r_child # "none" /\ r_child # "exited"

\* C10: when the timeout elapses with the child still running the scenario is
\* returned as a fail with reason "timeout" (not a skip), and whenever
\* run_single_test has returned, the child it spawned is not alive.
C10_TimeoutFailsAndKills ==
    /\ (r_pc = "returned" /\ TimedOut) => (r_ret = Ret(FALSE, "timeout"))
    /\ r_pc \in {"returned", "raised"} => r_child # "alive"

\* A timeout of two ticks elapsed and the call returned.
C10_Witness ==
    /\ r_pc = "returned"
    /\ r_timeout = 2 /\ r_clock = 2
    /\ r_child = "killed"
    /\ r_ret.skip_reason = "timeout"

------------------------------------------------------------------------------
\* Invocations of main, one after the other, over one file system.

Init ==
    /\ pc = "idle"
    /\ corpus = Corpus
    /\ fs = [n \in FileNames |-> NoFile]
    /\ invocations = 0
    /\ MainLocalsOff
    /\ ExpandOff
    /\ RunnerOff
    /\ PoolOff

\* sys.exit(status), or the end of main
Exit(status) ==
    /\ pc' = "exited"
    /\ exit_status' = status

\* lines 486-563: the arguments are parsed, the binary and the corpus are
\* looked for, the tests are found and expanded into the work list.
\*   binary_is_file  the engine binary exists
\*   corpus_is_dir   test262/test is a directory
\*   unreadable      the test files main cannot read
Start ==
    /\ pc = "idle"
    /\ invocations < MaxInvocations
    /\ invocations' = invocations + 1
    /\ fs_at_start' = fs
    /\ \E engine \in Engines, args_paths \in PathLists,
          binary_is_file, corpus_is_dir \in BOOLEAN,
          unreadable \in UnreadableSets :
        /\ engine_name' = engine
        /\ paths' = args_paths
        /\ binary_ok' = binary_is_file
        /\ corpus_ok' = corpus_is_dir
        /\ IF SetupStatus(engine, binary_is_file, corpus_is_dir,
                          FindTests(args_paths)) # -1 THEN
                /\ Exit(SetupStatus(engine, binary_is_file, corpus_is_dir,
                                    FindTests(args_paths)))
                /\ UNCHANGED <<tests, work, pending>>
           ELSE
                /\ tests' = FindTests(args_paths)
                /\ work' = ExpandTests(FindTests(args_paths), unreadable)
                /\ pending' = 1..Len(ExpandTests(FindTests(args_paths), unreadable))
                /\ pc' = "pool"
                /\ UNCHANGED exit_status
    /\ UNCHANGED <<fs, passed, failed, skipped, done, pass_list, fail_list,
                   regressions, new_passes, json_obj, corpus, outcome>>

\* lines 567-577: the next completed future, in whatever order the workers
\* finish, is folded into the counters and lists.
Fold ==
    /\ pc = "pool"
    /\ \E i \in pending :
        \E ret \in RunSingleTestReturns(engine_name, work[i], binary_ok) :
            /\ pending' = pending \ {i}
            /\ done' = done + 1
            /\ IF IsSkip(ret.skip_reason) THEN
                    /\ skipped' = skipped + 1
                    /\ outcome' = outcome \cup {<<i, work[i].scenario_id, "skip">>}
                    /\ UNCHANGED <<passed, failed, pass_list, fail_list>>
               ELSE IF ret.passed THEN
                    /\ passed' = passed + 1
                    /\ pass_list' = Append(pass_list, work[i].scenario_id)
                    /\ outcome' = outcome \cup {<<i, work[i].scenario_id, "pass">>}
                    /\ UNCHANGED <<skipped, failed, fail_list>>
               ELSE
                    /\ failed' = failed + 1
                    /\ fail_list' = Append(fail_list, work[i].scenario_id)
                    /\ outcome' = outcome \cup {<<i, work[i].scenario_id, "fail">>}
                    /\ UNCHANGED <<skipped, passed, pass_list>>
    /\ pc' = IF pending' = {} THEN "joined" ELSE "pool"
    /\ UNCHANGED <<fs, invocations, engine_name, paths, tests, work, binary_ok,
                   regressions, new_passes, exit_status, json_obj, corpus,
                   corpus_ok, fs_at_start>>

\* line 568: future.result() re-raises what run_single_test raised; nothing
\* catches it, the pool is shut down and the process ends with a traceback.
FutureRaises ==
    /\ pc = "pool"
    /\ \E i \in pending : RunSingleTestCanRaise(engine_name, work[i])
    /\ Exit(1)
    /\ UNCHANGED <<fs, invocations, engine_name, paths, tests, work, binary_ok,
                   pending, passed, failed, skipped, done, pass_list, fail_list,
                   regressions, new_passes, json_obj, corpus, corpus_ok, outcome,
                   fs_at_start>>

\* lines 586-649: after the pool has joined, the regressions are computed
\* against the baseline, the baseline and the failure file are written and the
\* summary is printed.
Report ==
    /\ pc = "joined"
    /\ LET baseline_file == BaselineFile(engine_name)
           fail_file == FailFile(engine_name)
           ran_tests == Range(pass_list \o fail_list)
           is_full_run == paths = << >>
           baseline == ReadBaseline(fs[baseline_file])
           current == Range(pass_list)
       IN  /\ IF fs[baseline_file].exists
              THEN /\ regressions' = Regressions(baseline, ran_tests, current)
                   /\ new_passes' = NewPasses(baseline, current)
              ELSE /\ regressions' = << >>
                   /\ new_passes' = << >>
           /\ pass_list' = IF is_full_run THEN SortList(pass_list) ELSE pass_list
           /\ fail_list' = SortList(fail_list)
           /\ fs' = WriteFailFile(
                      WriteBaseline(fs, baseline_file, is_full_run, pass_list),
                      fail_file, fail_list)
    /\ json_obj' = Summary(engine_name, Len(tests), Len(work), passed, failed,
                           skipped, Len(regressions'), Len(new_passes'))
    /\ Exit(0)
    /\ UNCHANGED <<invocations, engine_name, paths, tests, work, binary_ok,
                   pending, passed, failed, skipped, done, corpus, corpus_ok,
                   outcome, fs_at_start>>

\* The process is gone: only the file system outlives it.
ProcessEnd ==
    /\ pc = "exited"
    /\ pc' = "idle"
    /\ engine_name' = "jsse"
    /\ paths' = << >>
    /\ tests' = << >>
    /\ work' = << >>
    /\ binary_ok' = FALSE
    /\ pending' = {}
    /\ passed' = 0
    /\ failed' = 0
    /\ skipped' = 0
    /\ done' = 0
    /\ pass_list' = << >>
    /\ fail_list' = << >>
    /\ regressions' = << >>
    /\ new_passes' = << >>
    /\ exit_status' = -1
    /\ json_obj' = NoSummary
    /\ corpus_ok' = FALSE
    /\ outcome' = {}
    /\ fs_at_start' = [n \in FileNames |-> NoFile]
    /\ UNCHANGED <<fs, invocations, corpus>>

Next ==
    \/ Start /\ UNCHANGED <<expandVars, runnerVars, poolVars>>
    \/ Fold /\ UNCHANGED <<expandVars, runnerVars, poolVars>>
    \/ FutureRaises /\ UNCHANGED <<expandVars, runnerVars, poolVars>>
    \/ Report /\ UNCHANGED <<expandVars, runnerVars, poolVars>>
    \/ ProcessEnd /\ UNCHANGED <<expandVars, runnerVars, poolVars>>

Spec == Init /\ [][Next]_vars

\* One invocation of main over one of the corpora, starting from no files.
InitOneRun ==
    /\ pc = "idle"
    /\ corpus \in {Corpus, CorpusThreeFiles, CorpusThreeFilesOneMode}
    /\ fs = [n \in FileNames |-> NoFile]
    /\ invocations = MaxInvocations - 1
    /\ MainLocalsOff
    /\ ExpandOff
    /\ RunnerOff
    /\ PoolOff

SpecOneRun == InitOneRun /\ [][Next]_vars

\* The ids a newline-delimited file holds: its non-empty lines, in order.
RECURSIVE NonEmptyLines(_)
NonEmptyLines(text) ==
    IF text = << >> THEN << >>
    ELSE IF Head(text) = LF THEN NonEmptyLines(Tail(text))
    ELSE LET ends == {i \in 1..Len(text) : text[i] = LF} \cup {Len(text) + 1}
             k == CHOOSE i \in ends : \A j \in ends : i <= j
         IN  <<SubSeq(text, 1, k - 1)>>
             \o NonEmptyLines(SubSeq(text, k, Len(text)))

\* The invocation ran every scenario and reported.
RunCompleted == pc = "exited" /\ exit_status = 0

\* The scenarios counted as pass or fail in this run, and those counted as pass.
Executed == {o[2] : o \in {x \in outcome : x[3] \in {"pass", "fail"}}}
Passing == {o[2] : o \in {x \in outcome : x[3] = "pass"}}

\* The ids the baseline file held when the invocation began.
BaselineAtStart == Range(NonEmptyLines(fs_at_start[BaselineFile(engine_name)].text))

\* C1: in a completed run that found a baseline B, the reported regressions
\* are exactly (B \cap E) \ C for the executed set E and the pass set C, and
\* no scenario that was not executed this run is among them.
C1_RegressionLaw ==
    (RunCompleted /\ fs_at_start[BaselineFile(engine_name)].exists) =>
        /\ Range(regressions) = (BaselineAtStart \cap Executed) \ Passing
        /\ Range(regressions) \subseteq Executed
        /\ Len(regressions) = Cardinality(Range(regressions))

\* A filtered run of a.js alone regressed on a.js while the baseline also holds
\* b.js, which did not run and does not pass.
C1_Witness ==
    /\ RunCompleted
    /\ paths = <<"a.js">>
    /\ FileB \in BaselineAtStart
    /\ FileB \notin Executed
    /\ regressions = <<FileA>>

\* C2: after a completed run with no path filter the baseline file holds the
\* sorted ids that passed in this run; after a completed run with a path
\* filter the baseline file is what it was when the run began.
C2_BaselinePersistence ==
    RunCompleted =>
        IF paths = << >>
        THEN /\ fs[BaselineFile(engine_name)].exists
             /\ NonEmptyLines(fs[BaselineFile(engine_name)].text) = Sorted(Passing)
        ELSE fs[BaselineFile(engine_name)] = fs_at_start[BaselineFile(engine_name)]

\* A filtered run over the whole directory in which nothing passed left a
\* baseline of three ids as it was.
C2_Witness ==
    /\ RunCompleted
    /\ paths = <<"test">>
    /\ Passing = {}
    /\ Cardinality(Executed) = 3
    /\ Len(NonEmptyLines(fs[BaselineFile(engine_name)].text)) = 3

\* The invocation ended before any scenario ran and wrote no file.
AbortedInSetup(status) ==
    /\ pc = "exited"
    /\ exit_status = status
    /\ outcome = {}
    /\ fs = fs_at_start

\* C11: whatever the engine, an invocation whose engine binary is missing
\* ends with exit code 2 before any scenario is executed and writes neither
\* the baseline nor the failure file.
C11_MissingBinaryAborts ==
    (pc # "idle" /\ ~binary_ok) => AbortedInSetup(2)

\* C12: with the binary present, a missing corpus directory ends the
\* invocation with exit code 2 and a selection of zero test files with exit
\* code 1, in both cases with no scenario run and no file written; an
\* invocation that folded every scenario and reported ends with exit code 0.
C12_SetupExitCodes ==
    (pc # "idle" /\ binary_ok) =>
        /\ ~corpus_ok => AbortedInSetup(2)
        /\ (corpus_ok /\ FindTests(paths) = << >>) => AbortedInSetup(1)
        /\ (pc = "exited" /\ work # << >> /\ pending = {}) => exit_status = 0

\* With the binary and the corpus present a path filter that names no test
\* file ended the invocation with 1 and left an earlier failure file alone.
C12_Witness ==
    /\ binary_ok
    /\ corpus_ok
    /\ paths = <<"missing">>
    /\ AbortedInSetup(1)
    /\ fs[FailFile(engine_name)].exists

\* What has been folded so far agrees with the counters and the lists, and a
\* printed summary adds up.
CountAccounting ==
    /\ passed + failed + skipped = done
    /\ done = Cardinality(outcome)
    /\ Len(pass_list) = passed
    /\ Len(fail_list) = failed
    /\ RunCompleted =>
        /\ json_obj.scenarios = Cardinality(outcome)
        /\ json_obj.scenarios = json_obj.run + json_obj.skip
        /\ json_obj.run = json_obj.pass + json_obj.fail

\* A completed run of the whole corpus in which a.js ran in both modes and
\* every scenario passed.
AllPassFullRun ==
    /\ RunCompleted
    /\ paths = << >>
    /\ {FileA, FileA \o <<STRICT>>} \subseteq Passing
    /\ \A o \in outcome : o[3] = "pass"

\* The summary reports three files and n scenarios, all run and all passing.
ReportsAllPass(n) ==
    /\ json_obj.files = 3
    /\ json_obj.scenarios = n
    /\ json_obj.run = n
    /\ json_obj.pass = n
    /\ json_obj.fail = 0
    /\ json_obj.percentage = 10000

\* C13 as stated: the counts add up throughout aggregation and in the
\* summary, and a corpus of a plain file, an onlyStrict file and a negative
\* file of the parse phase, all passing, reports 3 files and 4 scenarios.
C13_ThreeFilesFourScenarios ==
    /\ CountAccounting
    /\ (AllPassFullRun /\ corpus \in {CorpusThreeFiles, CorpusThreeFilesOneMode})
        => ReportsAllPass(4)

\* C13 amended: the counts add up throughout aggregation and in the summary;
\* the three-file corpus, all passing, reports 4 scenarios when the negative
\* file declares a single mode and 5 when it declares no flag, because a
\* negative file without flags runs in both modes like any other file.
C13_CountAccounting ==
    /\ CountAccounting
    /\ (AllPassFullRun /\ corpus = CorpusThreeFilesOneMode) => ReportsAllPass(4)
    /\ (AllPassFullRun /\ corpus = CorpusThreeFiles) => ReportsAllPass(5)

\* The three-file corpus whose negative file declares no flag ran whole, all
\* five scenarios passed and the summary says so.
C13_Witness ==
    /\ AllPassFullRun
    /\ corpus = CorpusThreeFiles
    /\ Cardinality(Passing) = 5
    /\ json_obj.scenarios = 5

\* C14: a file whose flags contain "raw" gives exactly one scenario, never in
\* strict mode, and the source composed for it is the test body alone: no
\* pragma, no mandatory helper, no async helper and no include comes before
\* it, and none is preloaded on the command line either.
C14_RawIsLiteral ==
    "raw" \in r_metadata.flags =>
        /\ Len(ComputeScenarios(<<"a", JS>>, r_metadata.flags)) = 1
        /\ r_mode # "strict"
        /\ r_tmp_path # "None" => r_combined = <<"<source>">>
        /\ "--prelude" \notin Range(r_cmd)

\* A raw file that also declares async, onlyStrict and two includes was
\* composed, run and classified.
C14_Witness ==
    /\ Completed
    /\ {"raw", "async", "onlyStrict"} \subseteq r_metadata.flags
    /\ r_metadata.includes # << >>
    /\ r_mode = "default"
    /\ r_combined = <<"<source>">>

\* The lines of the failure file of this invocation's engine.
FailLines == NonEmptyLines(fs[FailFile(engine_name)].text)

\* The folded results counted as fail.
FailOutcomes == {o \in outcome : o[3] = "fail"}

\* C15: after a completed run, filtered or not, the failure file holds the
\* ids of the scenarios counted as fail in this run, each as often as it was
\* counted, in sorted order and nothing else, whatever the file held before;
\* the id of a skipped scenario and the id of a scenario outside the
\* selection are not in it.
C15_FailFileIsThisRun ==
    RunCompleted =>
        /\ fs[FailFile(engine_name)].exists
        /\ Len(FailLines) = Cardinality(FailOutcomes)
        /\ \A id \in Range(FailLines) \cup {o[2] : o \in FailOutcomes} :
              Cardinality({i \in 1..Len(FailLines) : FailLines[i] = id})
                  = Cardinality({o \in FailOutcomes : o[2] = id})
        /\ \A i \in 1..(Len(FailLines) - 1) :
              ~StrLess(FailLines[i + 1], FailLines[i])
        /\ \A o \in outcome : o[3] = "skip" => o[2] \notin Range(FailLines)
        /\ Range(FailLines) \subseteq {work[i].scenario_id : i \in 1..Len(work)}

\* C16: a completed run that found a baseline B reports as new passes the
\* ids that passed in this run and are not in B, each once; a completed run
\* that found no baseline file reports no regression and no new pass.
C16_NewPassLaw ==
    RunCompleted =>
        IF fs_at_start[BaselineFile(engine_name)].exists
        THEN /\ Range(new_passes) = Passing \ BaselineAtStart
             /\ Len(new_passes) = Cardinality(Range(new_passes))
        ELSE /\ regressions = << >>
             /\ new_passes = << >>

\* Both scenarios of a.js passed against a baseline that held a.js and b.js:
\* the strict scenario alone is a new pass.
C16_Witness ==
    /\ RunCompleted
    /\ BaselineAtStart = {FileA, FileB}
    /\ Passing = {FileA, FileA \o <<STRICT>>}
    /\ new_passes = <<FileA \o <<STRICT>>>>

\* The command line preloads helper h: "--prelude" followed by h.
Preloaded(h) ==
    \E i \in 1..(Len(r_cmd) - 1) : r_cmd[i] = "--prelude" /\ r_cmd[i + 1] = h

\* C18: under an engine that runs modules (jsse, boa) the command built for a
\* module scenario runs the unmodified test source, and each helper the test
\* needs (assert.js, sta.js, doneprintHandle.js when async, the includes) is
\* preloaded on the command line.
C18_ModuleHelpersPreloaded ==
    (r_is_module /\ ~SkipModule(r_engine) /\ r_cmd # << >>) =>
        /\ r_tmp_path # "None" => r_combined = <<"<source>">>
        /\ \A h \in Range(GetHarnessFiles(r_metadata, r_is_module, r_is_async)) :
              Preloaded(h)

\* C19: whatever goes wrong inside run_single_test, an invocation that
\* scheduled scenarios folds a result for every one of them and ends with
\* exit code 0.
C19_ErrorsContained ==
    (pc = "exited" /\ work # << >>) =>
        /\ pending = {}
        /\ done = Len(work)
        /\ exit_status = 0

------------------------------------------------------------------------------
\* SpecPool: main, the workers of its ProcessPoolExecutor and the engine
\* processes they spawn, with a termination signal that may reach main at any
\* moment.  What a scenario returns does not matter here, only whether
\* run_single_test returns or raises.

Workers == 1..MaxWorkers
Scenarios == 1..MaxScenarios

InitPool ==
    /\ p_pc = "setup"
    /\ p_full \in BOOLEAN
    /\ p_item = [i \in Scenarios |-> "queued"]
    /\ p_by = [i \in Scenarios |-> 0]
    /\ p_res = [i \in Scenarios |-> "none"]
    /\ p_tmp = {}
    /\ p_child = [i \in Scenarios |-> "none"]
    /\ p_worker = [w \in Workers |-> "gone"]
    /\ p_sig = "none"
    /\ p_exit = -1
    /\ p_baseline = "old"
    /\ p_failfile = "old"
    /\ p_writes = [baseline |-> 0, fail |-> 0]
    /\ ExpandOff
    /\ RunnerOff
    /\ MainOff

\* A worker that never counts as busy.
NeverBusy(w) == FALSE

\* A worker runs one call of run_single_test at a time: it is busy from the
\* moment it takes a work item until run_single_test returns or raises.
Busy(w) == \E i \in Scenarios : p_by[i] = w /\ p_item[i] \in {"spawn", "running"}

\* The loop over as_completed ended as soon as nothing was left in the queue.
JoinedWhenQueueEmpty(items) == \A i \in DOMAIN items : items[i] # "queued"

\* lines 567-584: the loop over as_completed(futures) ends when every future
\* has been yielded and folded.
AllJoined(items) == \A i \in DOMAIN items : items[i] = "folded"

\* Every process of the run is gone: main, the workers, the engine children.
Terminated ==
    /\ p_pc = "exited"
    /\ \A w \in Workers : p_worker[w] \in {"dead", "gone"}
    /\ \A i \in Scenarios : p_child[i] \notin {"alive", "signalled"}

\* line 565: the pool is created and every work item is submitted.
StartPool ==
    /\ p_pc = "setup"
    /\ p_pc' = "pool"
    /\ p_worker' = [w \in Workers |-> "up"]
    /\ UNCHANGED <<p_full, p_item, p_by, p_res, p_tmp, p_child, p_sig, p_exit,
                   p_baseline, p_failfile, p_writes>>

\* lines 316-354 in a worker: it takes the next work item and prepares it.
\* run_single_test returns at once (read_error, skip_module, harness_error),
\* raises because the temporary file cannot be created or written (a failed
\* write leaves the file), or goes on to the spawn, with a temporary file or,
\* for a module under jsse, without one.
Take ==
    /\ p_pc \in {"pool", "raising"}
    /\ \E w \in Workers, i \in Scenarios :
        /\ p_worker[w] = "up"
        /\ ~Busy(w)
        /\ p_item[i] = "queued"
        /\ \E how \in {"returns", "raises", "raises_left", "tmp", "no_tmp"} :
            CASE how = "returns" ->
                    /\ p_item' = [p_item EXCEPT ![i] = "result"]
                    /\ p_res' = [p_res EXCEPT ![i] = "ret"]
                    /\ UNCHANGED <<p_by, p_tmp>>
              [] how = "raises" ->
                    /\ p_item' = [p_item EXCEPT ![i] = "result"]
                    /\ p_res' = [p_res EXCEPT ![i] = "raised"]
                    /\ UNCHANGED <<p_by, p_tmp>>
              [] how = "raises_left" ->
                    /\ p_item' = [p_item EXCEPT ![i] = "result"]
                    /\ p_res' = [p_res EXCEPT ![i] = "raised"]
                    /\ p_tmp' = p_tmp \cup {i}
                    /\ UNCHANGED p_by
              [] how = "tmp" ->
                    /\ p_item' = [p_item EXCEPT ![i] = "spawn"]
                    /\ p_by' = [p_by EXCEPT ![i] = w]
                    /\ p_tmp' = p_tmp \cup {i}
                    /\ UNCHANGED p_res
              [] how = "no_tmp" ->
                    /\ p_item' = [p_item EXCEPT ![i] = "spawn"]
                    /\ p_by' = [p_by EXCEPT ![i] = w]
                    /\ UNCHANGED <<p_res, p_tmp>>
    /\ UNCHANGED <<p_pc, p_full, p_child, p_worker, p_sig, p_exit, p_baseline,
                   p_failfile, p_writes>>

\* line 357: subprocess.run spawns the engine with the pre-exec function, or
\* raises OSError (exec_error is returned), or the pre-exec function fails
\* and SubprocessError leaves run_single_test; the file is unlinked on both
\* failures.
SpawnChild ==
    /\ \E i \in Scenarios :
        /\ p_item[i] = "spawn"
        /\ p_worker[p_by[i]] = "up"
        /\ \E how \in {"spawned", "oserror", "preexec_error"} :
            CASE how = "spawned" ->
                    /\ p_item' = [p_item EXCEPT ![i] = "running"]
                    /\ p_child' = [p_child EXCEPT ![i] = "alive"]
                    /\ UNCHANGED <<p_by, p_res, p_tmp>>
              [] how = "oserror" ->
                    /\ p_item' = [p_item EXCEPT ![i] = "result"]
                    /\ p_by' = [p_by EXCEPT ![i] = 0]
                    /\ p_res' = [p_res EXCEPT ![i] = "ret"]
                    /\ p_tmp' = p_tmp \ {i}
                    /\ UNCHANGED p_child
              [] how = "preexec_error" ->
                    /\ p_item' = [p_item EXCEPT ![i] = "result"]
                    /\ p_by' = [p_by EXCEPT ![i] = 0]
                    /\ p_res' = [p_res EXCEPT ![i] = "raised"]
                    /\ p_tmp' = p_tmp \ {i}
                    /\ UNCHANGED p_child
    /\ UNCHANGED <<p_pc, p_full, p_worker, p_sig, p_exit, p_baseline,
                   p_failfile, p_writes>>

\* lines 357-404: the child ends before the timeout; the worker unlinks the
\* file, classifies and returns.
ChildEnds ==
    /\ \E i \in Scenarios :
        /\ p_item[i] = "running"
        /\ p_child[i] = "alive"
        /\ p_worker[p_by[i]] = "up"
        /\ p_child' = [p_child EXCEPT ![i] = "exited"]
        /\ p_item' = [p_item EXCEPT ![i] = "result"]
        /\ p_by' = [p_by EXCEPT ![i] = 0]
        /\ p_res' = [p_res EXCEPT ![i] = "ret"]
        /\ p_tmp' = p_tmp \ {i}
    /\ UNCHANGED <<p_pc, p_full, p_worker, p_sig, p_exit, p_baseline,
                   p_failfile, p_writes>>

\* lines 364-370: the timeout expires; subprocess.run kills the child and
\* waits for it, the worker unlinks the file and returns "timeout".
ChildTimesOut ==
    /\ \E i \in Scenarios :
        /\ p_item[i] = "running"
        /\ p_child[i] = "alive"
        /\ p_worker[p_by[i]] = "up"
        /\ p_child' = [p_child EXCEPT ![i] = ChildAfterTimeout]
        /\ p_item' = [p_item EXCEPT ![i] = "result"]
        /\ p_by' = [p_by EXCEPT ![i] = 0]
        /\ p_res' = [p_res EXCEPT ![i] = "ret"]
        /\ p_tmp' = p_tmp \ {i}
    /\ UNCHANGED <<p_pc, p_full, p_worker, p_sig, p_exit, p_baseline,
                   p_failfile, p_writes>>

\* lines 567-577: main folds the next completed future; a future that holds
\* an exception re-raises it at future.result() and main leaves the loop for
\* the end of the with block.
FoldFuture ==
    /\ p_pc = "pool"
    /\ \E i \in Scenarios :
        /\ p_item[i] = "result"
        /\ IF p_res[i] = "ret"
           THEN /\ p_item' = [p_item EXCEPT ![i] = "folded"]
                /\ UNCHANGED p_pc
           ELSE /\ p_item' = [p_item EXCEPT ![i] = "lost"]
                /\ p_pc' = "raising"
    /\ UNCHANGED <<p_full, p_by, p_res, p_tmp, p_child, p_worker, p_sig, p_exit,
                   p_baseline, p_failfile, p_writes>>

\* The with block is left by the exception: shutdown(wait=True) lets the
\* workers finish every submitted item, then the traceback ends main.
ExitRaised ==
    /\ p_pc = "raising"
    /\ \A i \in Scenarios : p_item[i] \notin {"queued", "spawn", "running"}
    /\ p_pc' = "exited"
    /\ p_exit' = 1
    /\ p_worker' = [w \in Workers |-> "gone"]
    /\ UNCHANGED <<p_full, p_item, p_by, p_res, p_tmp, p_child, p_sig,
                   p_baseline, p_failfile, p_writes>>

\* lines 567-584: every future was folded; the with block ends and the
\* workers are joined.
Join ==
    /\ p_pc = "pool"
    /\ AllJoined(p_item)
    /\ p_pc' = "joined"
    /\ p_worker' = [w \in Workers |-> "gone"]
    /\ UNCHANGED <<p_full, p_item, p_by, p_res, p_tmp, p_child, p_sig, p_exit,
                   p_baseline, p_failfile, p_writes>>

\* lines 629-631: on a full run baseline_file.write_text opens the file for
\* writing, which truncates it ...
OpenBaseline ==
    /\ p_pc = "joined"
    /\ IF p_full
       THEN /\ p_pc' = "baseline_open"
            /\ p_baseline' = "truncated"
            /\ p_writes' = [p_writes EXCEPT !.baseline = @ + 1]
       ELSE /\ p_pc' = "baseline_done"
            /\ UNCHANGED <<p_baseline, p_writes>>
    /\ UNCHANGED <<p_full, p_item, p_by, p_res, p_tmp, p_child, p_worker, p_sig,
                   p_exit, p_failfile>>

\* ... and then writes the text and closes the file.
CloseBaseline ==
    /\ p_pc = "baseline_open"
    /\ p_pc' = "baseline_done"
    /\ p_baseline' = "new"
    /\ UNCHANGED <<p_full, p_item, p_by, p_res, p_tmp, p_child, p_worker, p_sig,
                   p_exit, p_failfile, p_writes>>

\* lines 633-634: fail_file.write_text, in the same two steps.
OpenFailFile ==
    /\ p_pc = "baseline_done"
    /\ p_pc' = "fail_open"
    /\ p_failfile' = "truncated"
    /\ p_writes' = [p_writes EXCEPT !.fail = @ + 1]
    /\ UNCHANGED <<p_full, p_item, p_by, p_res, p_tmp, p_child, p_worker, p_sig,
                   p_exit, p_baseline>>

CloseFailFile ==
    /\ p_pc = "fail_open"
    /\ p_pc' = "fail_done"
    /\ p_failfile' = "new"
    /\ UNCHANGED <<p_full, p_item, p_by, p_res, p_tmp, p_child, p_worker, p_sig,
                   p_exit, p_baseline, p_writes>>

\* lines 636-649: the summary is printed and main ends.
ExitCompleted ==
    /\ p_pc = "fail_done"
    /\ p_pc' = "exited"
    /\ p_exit' = 0
    /\ UNCHANGED <<p_full, p_item, p_by, p_res, p_tmp, p_child, p_worker, p_sig,
                   p_baseline, p_failfile, p_writes>>

\* 128 + signum, line 55
SignalExit(sig) == 128 + (IF sig = "SIGTERM" THEN 15 ELSE 2)

\* lines 47-55 and 495-496: SIGTERM or SIGINT reaches main, whose handler
\* sends SIGTERM to its process group (the workers and the engine children
\* are forked into it) and ends main at once with os._exit.
Signal ==
    /\ p_pc \notin {"off", "exited"}
    /\ \E sig \in {"SIGTERM", "SIGINT"} :
        /\ p_sig' = sig
        /\ p_exit' = SignalExit(sig)
    /\ p_pc' = "exited"
    /\ p_worker' = [w \in Workers |->
                      IF p_worker[w] = "up" THEN "signalled" ELSE p_worker[w]]
    /\ p_child' = [i \in Scenarios |->
                      IF p_child[i] = "alive" THEN "signalled" ELSE p_child[i]]
    /\ UNCHANGED <<p_full, p_item, p_by, p_res, p_tmp, p_baseline, p_failfile,
                   p_writes>>

\* lines 41-45: a worker has the default disposition for SIGTERM, so the
\* signal ends it where it stands; no except or finally clause runs.
WorkerDies ==
    /\ \E w \in Workers :
        /\ p_worker[w] = "signalled"
        /\ p_worker' = [p_worker EXCEPT ![w] = "dead"]
        /\ p_item' = [i \in Scenarios |->
                        IF p_by[i] = w /\ p_item[i] \in {"spawn", "running"}
                        THEN "lost" ELSE p_item[i]]
    /\ UNCHANGED <<p_pc, p_full, p_by, p_res, p_tmp, p_child, p_sig, p_exit,
                   p_baseline, p_failfile, p_writes>>

\* An engine process that was sent SIGTERM ends.
ChildDies ==
    /\ \E i \in Scenarios :
        /\ p_child[i] = "signalled"
        /\ p_child' = [p_child EXCEPT ![i] = "killed"]
    /\ UNCHANGED <<p_pc, p_full, p_item, p_by, p_res, p_tmp, p_worker, p_sig,
                   p_exit, p_baseline, p_failfile, p_writes>>

\* Every step but the arrival of a signal.
PoolStep ==
    \/ StartPool /\ UNCHANGED <<expandVars, runnerVars, mainVars>>
    \/ Take /\ UNCHANGED <<expandVars, runnerVars, mainVars>>
    \/ SpawnChild /\ UNCHANGED <<expandVars, runnerVars, mainVars>>
    \/ ChildEnds /\ UNCHANGED <<expandVars, runnerVars, mainVars>>
    \/ ChildTimesOut /\ UNCHANGED <<expandVars, runnerVars, mainVars>>
    \/ FoldFuture /\ UNCHANGED <<expandVars, runnerVars, mainVars>>
    \/ ExitRaised /\ UNCHANGED <<expandVars, runnerVars, mainVars>>
    \/ Join /\ UNCHANGED <<expandVars, runnerVars, mainVars>>
    \/ OpenBaseline /\ UNCHANGED <<expandVars, runnerVars, mainVars>>
    \/ CloseBaseline /\ UNCHANGED <<expandVars, runnerVars, mainVars>>
    \/ OpenFailFile /\ UNCHANGED <<expandVars, runnerVars, mainVars>>
    \/ CloseFailFile /\ UNCHANGED <<expandVars, runnerVars, mainVars>>
    \/ ExitCompleted /\ UNCHANGED <<expandVars, runnerVars, mainVars>>
    \/ WorkerDies /\ UNCHANGED <<expandVars, runnerVars, mainVars>>
    \/ ChildDies /\ UNCHANGED <<expandVars, runnerVars, mainVars>>

NextPool ==
    \/ PoolStep
    \/ Signal /\ UNCHANGED <<expandVars, runnerVars, mainVars>>

SpecPool == InitPool /\ [][NextPool]_vars

\* The processes are scheduled fairly: a step that stays possible is taken.
SpecPoolLive == InitPool /\ [][NextPool]_vars /\ WF_vars(PoolStep)

\* C21: whenever main, the workers and the engine children have all
\* terminated, also after a SIGTERM or SIGINT that arrived while scenarios
\* were in flight, no temporary source file of the run is left on disk.
C21_NoTmpAfterTermination ==
    Terminated => p_tmp = {}

\* C22: once SIGTERM or SIGINT has reached main, at whatever point of the
\* run, main, every worker and every engine child eventually have terminated,
\* and the run that was aborted has not written the baseline file.
C22_CancellationReachesAll ==
    /\ (p_sig # "none") ~> Terminated
    /\ [](p_sig # "none" => p_baseline = "old")

\* The ids of the scenarios counted as kind, in the order of the work list.
IdsCounted(kind) ==
    LET sel == SelectSeq([i \in 1..Len(work) |-> i],
                         LAMBDA i : <<i, work[i].scenario_id, kind>> \in outcome)
    IN  [k \in 1..Len(sel) |-> work[sel[k]].scenario_id]

\* C23: what a completed run reports and persists is a function of the set of
\* per-scenario results alone, whatever order the workers finished in: the
\* counts, the regression and new-pass lists, the baseline written by a full
\* run and the failure file are those of folding the results in the order of
\* the work list.
C23_AggregationCommutes ==
    RunCompleted =>
        /\ json_obj.pass = Len(IdsCounted("pass"))
        /\ json_obj.fail = Len(IdsCounted("fail"))
        /\ json_obj.skip = Len(IdsCounted("skip"))
        /\ json_obj.run = Len(IdsCounted("pass")) + Len(IdsCounted("fail"))
        /\ regressions =
              (IF fs_at_start[BaselineFile(engine_name)].exists
               THEN Regressions(ReadBaseline(fs_at_start[BaselineFile(engine_name)]),
                                Range(IdsCounted("pass") \o IdsCounted("fail")),
                                Range(IdsCounted("pass")))
               ELSE << >>)
        /\ new_passes =
              (IF fs_at_start[BaselineFile(engine_name)].exists
               THEN NewPasses(ReadBaseline(fs_at_start[BaselineFile(engine_name)]),
                              Range(IdsCounted("pass")))
               ELSE << >>)
        /\ paths = << >> =>
              fs[BaselineFile(engine_name)] =
                  File(JoinLines(SortList(IdsCounted("pass"))) \o <<LF>>)
        /\ fs[FailFile(engine_name)] =
              File(JoinLines(SortList(IdsCounted("fail"))) \o <<LF>>)

\* In a filtered run the two scenarios of a.js passed and were folded strict
\* first; the new passes are reported in sorted order all the same.
C23_Witness ==
    /\ RunCompleted
    /\ paths = <<"a.js">>
    /\ pass_list = <<FileA \o <<STRICT>>, FileA>>
    /\ new_passes = <<FileA, FileA \o <<STRICT>>>>

\* C24: in one invocation the baseline file is opened for writing at most
\* once and the failure file at most once, a run that completes has written
\* the failure file exactly once, and whenever either file has been touched
\* every scenario result had been folded, every worker had been joined and no
\* engine child was running.
C24_WritesOnceAfterJoin ==
    /\ p_writes.baseline <= 1
    /\ p_writes.fail <= 1
    /\ (p_pc = "exited" /\ p_exit = 0) => p_writes.fail = 1
    /\ (p_writes.baseline > 0 \/ p_writes.fail > 0
            \/ p_baseline # "old" \/ p_failfile # "old") =>
        /\ \A i \in Scenarios : p_item[i] = "folded"
        /\ \A i \in Scenarios : p_child[i] \notin {"alive", "signalled"}
        /\ \A w \in Workers : p_worker[w] = "gone"

\* A full run completed: each file was written once, after every scenario
\* had run an engine child to its end.
C24_Witness ==
    /\ p_pc = "exited"
    /\ p_exit = 0
    /\ p_full
    /\ p_writes = [baseline |-> 1, fail |-> 1]
    /\ \A i \in Scenarios : p_child[i] = "exited"

\* The engine children that are running (one that was sent SIGTERM and has
\* not ended yet still is).
LiveChildren == {i \in Scenarios : p_child[i] \in {"alive", "signalled"}}

\* C25: each worker owns at most one live engine child, so at most as many
\* children are alive as there are workers; and a scenario a worker has
\* finished, which it must have before it takes the next, has no live child.
C25_OneChildPerWorker ==
    /\ \A w \in Workers : Cardinality({i \in LiveChildren : p_by[i] = w}) <= 1
    /\ Cardinality(LiveChildren) <= MaxWorkers
    /\ \A i \in Scenarios :
          p_item[i] \in {"result", "folded"} => i \notin LiveChildren
    /\ \A i \in LiveChildren : p_by[i] \in Workers

\* A worker runs the child of its second scenario after the child of its
\* first was killed at the timeout.
C25_Witness ==
    \E i, j \in Scenarios :
        /\ p_child[i] = "killed"
        /\ p_item[i] \in {"result", "folded"}
        /\ p_child[j] = "alive"
        /\ p_item[j] = "running"
        /\ p_sig = "none"

\* C26: a module scenario under an engine whose adapter skips modules spawns
\* no process and writes no temporary file, and run_single_test returns
\* skip_module for it, which main counts as skip and as nothing else.
C26_SkippedModuleIsSkipOnly ==
    (r_is_module /\ SkipModule(r_engine)) =>
        /\ r_child = "none"
        /\ r_tmp_path = "None"
        /\ ~r_tmp_exists
        /\ r_pc = "returned" => (r_ret = Ret(FALSE, "skip_module") /\ IsSkip(r_ret.skip_reason))

\* The parts of the composed source between the two mandatory helpers and the
\* test body.
BetweenHelpersAndBody ==
    LET k == IF r_mode = "strict" THEN 1 ELSE 0
    IN  SubSeq(r_combined, k + 3, Len(r_combined) - 1)

\* C27: the source composed for a scenario that is neither module nor raw
\* is, in this order: the strict pragma exactly when the mode is strict;
\* assert.js, then sta.js; the declared includes in their declared order,
\* with doneprintHandle.js among them exactly when the test is async; the
\* test body, last and only once.
C27_CompositionOrder ==
    (r_tmp_path # "None" /\ r_mode # "module" /\ "raw" \notin r_metadata.flags) =>
        LET k == IF r_mode = "strict" THEN 1 ELSE 0
            n == Len(r_combined)
        IN  /\ n >= k + 3
            /\ (r_mode = "strict") = (r_combined[1] = "use strict")
            /\ \A i \in 2..n : r_combined[i] # "use strict"
            /\ r_combined[k + 1] = "assert.js"
            /\ r_combined[k + 2] = "sta.js"
            /\ r_combined[n] = "<source>"
            /\ \A i \in 1..(n - 1) : r_combined[i] # "<source>"
            /\ SelectSeq(BetweenHelpersAndBody,
                         LAMBDA h : h # "doneprintHandle.js") = r_metadata.includes
            /\ Cardinality({i \in 1..Len(BetweenHelpersAndBody) :
                              BetweenHelpersAndBody[i] = "doneprintHandle.js"})
                   = (IF r_is_async THEN 1 ELSE 0)

\* An async test with two includes ran in strict mode: seven parts, from the
\* pragma to the test body.
C27_Witness ==
    /\ Completed
    /\ r_mode = "strict"
    /\ r_is_async
    /\ "raw" \notin r_metadata.flags
    /\ Len(r_metadata.includes) = 2
    /\ Len(r_combined) = 7
    /\ r_combined[1] = "use strict"
    /\ r_combined[7] = "<source>"

\* C29: the rules of run_single_test apply in a fixed order and one of them
\* decides each scenario that reached the spawn: a timeout is "timeout" and a
\* failed spawn is "exec_error" whatever the test declares; of the completed
\* scenarios a negative one is decided by exit code and stderr alone, markers
\* in stdout and the async flag notwithstanding; an async one that is not
\* negative never passes on a non-zero exit code and without a marker is
\* decided by the exit code; any other by the exit code.
C29_ClassificationPrecedence ==
    /\ (r_pc = "returned" /\ r_child = "killed") => r_ret = TimeoutRet
    /\ (r_pc = "returned" /\ r_cmd # << >> /\ r_child = "none") =>
            r_ret = Ret(FALSE, "exec_error")
    /\ Completed =>
        /\ r_ret.skip_reason = ""
        /\ ParseNegative =>
              r_ret.passed = IsParseError(r_engine, r_exit_code, r_stderr)
        /\ OtherNegative => r_ret.passed = (r_exit_code # 0)
        /\ AsyncNotNegative =>
              /\ r_ret.passed => r_exit_code = 0
              /\ r_stdout = {} => r_ret.passed = (r_exit_code = 0)
        /\ (~ParseNegative /\ ~OtherNegative /\ ~AsyncNotNegative) =>
              r_ret.passed = (r_exit_code = 0)

\* An async negative test of the runtime phase printed the failure marker,
\* exited with 1 and passed.
C29_Witness ==
    /\ Completed
    /\ OtherNegative
    /\ "async" \in r_front.flags
    /\ FAILURE \in r_stdout
    /\ r_exit_code = 1
    /\ r_ret.passed

\* C30: whatever paths are named, no scenario id is scheduled twice, the
\* pass list and the fail list hold no id twice, and the number of files
\* reported is the number of distinct test files.
C30_UniqueScenarioIds ==
    /\ \A i, j \in 1..Len(work) :
          i # j => work[i].scenario_id # work[j].scenario_id
    /\ Len(tests) = Cardinality(Range(tests))
    /\ Len(pass_list) = Cardinality(Range(pass_list))
    /\ Len(fail_list) = Cardinality(Range(fail_list))

\* C28: under fair scheduling a run that no signal cuts short eventually
\* reaches the reporting step with every scenario's result folded.
C28_RunReachesReport ==
    <>(\/ p_sig # "none"
       \/ p_pc = "joined" /\ \A i \in Scenarios : p_item[i] = "folded")

\* C31: after a completed full run that wrote the pass set P, the set the
\* next run loads from the baseline file (line 603) is P, for the empty P too.
C31_BaselineRoundTrip ==
    (RunCompleted /\ paths = << >>) =>
        ReadBaseline(fs[BaselineFile(engine_name)]) = Passing

\* The engine each persisted file belongs to: the default engine's files
\* carry no engine name, the others are engine-qualified.
OwnerOf(n) ==
    IF n \in {"test262-pass.txt", "/tmp/test262-fail.txt"} THEN "jsse"
    ELSE IF n \in {"test262-pass-node.txt", "/tmp/test262-fail-node.txt"} THEN "node"
    ELSE "boa"

\* The baseline file of the engine this invocation selected.
OwnBaseline ==
    CHOOSE n \in {"test262-pass.txt", "test262-pass-node.txt", "test262-pass-boa.txt"} :
        OwnerOf(n) = engine_name

\* The files of the engines other than the one this invocation selected.
OtherEnginesFiles == {n \in FileNames : OwnerOf(n) # engine_name}

\* C32: a run with engine selector X writes only X's baseline file and X's
\* failure file, and the baseline it compares against is X's: over any
\* sequence of runs with mixed engines, every step leaves the files of every
\* other engine as they were, and a file changes only in the reporting step.
C32_EngineIsolation ==
    [][/\ \A n \in FileNames :
             fs'[n] # fs[n] => pc = "joined" /\ n \notin OtherEnginesFiles
       /\ (pc = "joined" /\ pc' = "exited" /\ exit_status' = 0) =>
             /\ engine_name' = engine_name
             /\ regressions' =
                   IF fs[OwnBaseline].exists
                   THEN Regressions(ReadBaseline(fs[OwnBaseline]),
                                    Range(pass_list \o fail_list),
                                    Range(pass_list))
                   ELSE << >>]_vars

\* A node run has completed after a jsse run left its files, and has written
\* its own.
C32_Witness ==
    /\ RunCompleted
    /\ invocations = 2
    /\ engine_name = "node"
    /\ paths = << >>
    /\ fs_at_start["test262-pass.txt"].exists
    /\ fs_at_start["/tmp/test262-fail.txt"].exists
    /\ ~fs_at_start["test262-pass-node.txt"].exists
    /\ fs["test262-pass-node.txt"].exists
    /\ fs["/tmp/test262-fail-node.txt"].exists
    /\ fs["test262-pass.txt"] = fs_at_start["test262-pass.txt"]
    /\ fs["/tmp/test262-fail.txt"] = fs_at_start["/tmp/test262-fail.txt"]

\* C33: every field the README updater reads from the summary line is a field
\* the runner emits, so whenever the runner completes and prints the summary
\* the updater consumes it without a missing-field error.
C33_UpdaterConsumesSummary ==
    RunCompleted =>
        /\ UpdaterFields \subseteq DOMAIN json_obj
        /\ UpdateReadme(json_obj).raised = "none"

====
